---- MODULE Spec2Model ----
(***************************************************************************)
(* State-machine model of the Draco inline loader                          *)
(* (src/engine-patches/one-page-draco-decoder.js): the decoder             *)
(* initialization controller (window.initDracoDecoder), the host           *)
(* integration shims (patchAssetLoader) and the XMLHttpRequest overrides.  *)
(***************************************************************************)
EXTENDS Integers, Sequences, FiniteSets, TLC

\* ------------------------------------------------------------------ bounds
MaxCallers == 2      \* explicit calls of window.initDracoDecoder()
MaxHostCalls == 2    \* calls of the host engine's asset-open entry points
MaxXhr == 2          \* XMLHttpRequest objects
MaxXhrOps == 4       \* open/send calls over all XMLHttpRequest objects

\* ------------------------------------------------------ JavaScript values
\* A value that can sit in a global slot: its typeof, which object it is
\* (tag, n) and whether the patch attached its overrides to it
\* (locateFile, instantiateWasm).
Value(type, tag, n, patched) ==
    [type |-> type, tag |-> tag, n |-> n, patched |-> patched]

Undefined == Value("undefined", "none", 0, FALSE)
Null == Value("null", "none", 0, FALSE)
\* the glue code's factory function, loaded before the patch ran
PreFactory == Value("function", "factory", 0, FALSE)
\* a plain decoder object (asm.js build) present before the patch ran
PreObject == Value("object", "decoder", 0, FALSE)
\* the {} created by line 28 when the slot was empty
FreshConfig == Value("object", "config", 0, FALSE)
\* the factory function the glue code defines when it loads after the patch
GlueFactory == Value("function", "factory", 1, FALSE)
\* the module produced by the k-th invocation of the factory
ModuleOf(k) == Value("object", "module", k, FALSE)

TypeOf(v) == IF v.type = "null" THEN "object" ELSE v.type
Truthy(v) == v.type \notin {"undefined", "null"}

\* v.locateFile(path): the override of lines 41-46 returns the empty
\* string; a value without the override resolves the path itself.
LocateFile(v, path) == IF v.patched THEN "" ELSE path

Entries == {"open", "_parse", "parse"}

VARIABLES
    slot,            \* window.DracoDecoderModule
    local,           \* the closure variable DracoDecoderModule (line 28)
    wasmBinary,      \* DracoDecoderModule.wasmBinary || window.__DRACO_WASM_BINARY__ is set
    state,           \* window.__DRACO_DECODER_STATE__
    promises,        \* the promises created by initDracoDecoder, by identity
    initializedSlot, \* window.__DRACO_INITIALIZED_MODULE__
    returned,        \* what each call of initDracoDecoder returned
    factoryCalls,    \* the invocations of the factory and their progress
    glueLoaded,      \* the glue script ran after the patch
    autoInit,        \* autoInitDraco is still scheduled
    present,         \* the host entry points patchAssetLoader wrapped
    hostLog,         \* the delegations to the original host entry points
    xhr,             \* the XMLHttpRequest objects
    hist,            \* per object, its open and send calls
    timers,          \* the setTimeout(…, 0) callbacks not yet run
    reg,             \* the embedded resources and their blob URLs (window.__DRACO_*)
    fetchLog,        \* the calls of window.fetch and how each was answered
    scriptLog,       \* the src assignments on created script elements
    blobLog,         \* the calls of the Blob constructor
    workers,         \* the workers constructed and their init messages
    httpLog          \* the calls of pc.Http.prototype.get

ctlVars == <<slot, local, wasmBinary, state, promises, initializedSlot,
             returned, factoryCalls, glueLoaded, autoInit, present, hostLog>>
xhrVars == <<xhr, hist, timers>>
netVars == <<reg, fetchLog, scriptLog, blobLog, workers, httpLog>>
vars == <<slot, local, wasmBinary, state, promises, initializedSlot,
          returned, factoryCalls, glueLoaded, autoInit, present, hostLog,
          xhr, hist, timers,
          reg, fetchLog, scriptLog, blobLog, workers, httpLog>>

\* ------------------------------------------------- state after the patch
\* Lines 13-19.
InitialState == [decoderModule |-> Null, initPromise |-> 0, isReady |-> FALSE]

\* Lines 28-72: the closure variable is the value found in the slot, or a
\* new object; the overrides are attached to it and it is stored back.
Install(pre) ==
    LET base == IF Truthy(pre) THEN pre ELSE FreshConfig
    IN [base EXCEPT !.patched = TRUE]

XhrIdle ==
    /\ xhr = [o \in 1..MaxXhr |-> [blocked |-> FALSE, onerror |-> FALSE, listener |-> FALSE]]
    /\ hist = [o \in 1..MaxXhr |-> <<>>]
    /\ timers = <<>>

CtlInit ==
    \E pre \in {Undefined, PreFactory, PreObject}, w \in BOOLEAN, pr \in SUBSET Entries :
        /\ local = Install(pre)
        /\ slot = Install(pre)
        /\ wasmBinary = w
        /\ state = InitialState
        /\ promises = <<>>
        /\ initializedSlot = Undefined
        /\ returned = <<>>
        /\ factoryCalls = <<>>
        /\ glueLoaded = FALSE
        /\ autoInit = TRUE
        /\ present = pr
        /\ hostLog = <<>>

\* Lines 142-156: a blob URL is derived for each resource embedded when
\* the patch runs.
Registry(code, wasm) ==
    [decoderCode |-> code, decoderUrl |-> code, wasmBinary |-> wasm, wasmUrl |-> wasm]

\* the transport overrides and pc.Http.get before any call
NetIdle ==
    /\ reg = Registry(TRUE, TRUE)
    /\ fetchLog = <<>>
    /\ scriptLog = <<>>
    /\ blobLog = <<>>
    /\ workers = <<>>
    /\ httpLog = <<>>

Init == CtlInit /\ XhrIdle /\ NetIdle

\* --------------------------------------------------------------- promises
Pending(at) == [status |-> "pending", value |-> Null, reason |-> "", slotAtStart |-> at]
Fulfilled(v, at) == [status |-> "fulfilled", value |-> v, reason |-> "", slotAtStart |-> at]
Rejected(r, at) == [status |-> "rejected", value |-> Null, reason |-> r, slotAtStart |-> at]

\* resolve()/reject() of a promise that is already settled do nothing
Settle(ps, p, status, v, r) ==
    IF ps[p].status = "pending"
    THEN [ps EXCEPT ![p].status = status, ![p].value = v, ![p].reason = r]
    ELSE ps

\* ------------------------------------------------ window.initDracoDecoder
\* Line 86: if (state.initPromise)
HasInitPromise_isReady(st) == st.isReady
HasInitPromise_never(st) == FALSE
HasInitPromise(st) == st.initPromise # 0

\* Line 95: the guard that throws 'DracoDecoderModule not loaded'
NotLoaded(loc, win) == TypeOf(loc) # "function" /\ TypeOf(win) # "object"

\* Line 100: window.DracoDecoderModule || DracoDecoderModule
ModuleConfig(loc, win) == IF Truthy(win) THEN win ELSE loc

\* Lines 82-130, the whole call; it returns state.initPromise. Each
\* entry of returned holds the promise and whether it was still pending
\* when the call returned.
InitDracoDecoder ==
    IF HasInitPromise(state)
    THEN /\ returned' = Append(returned,
                [promise |-> state.initPromise,
                 early |-> promises[state.initPromise].status = "pending"])
         /\ UNCHANGED <<state, promises, factoryCalls, initializedSlot>>
    ELSE LET p == Len(promises) + 1
             cfg == ModuleConfig(local, slot)
         IN  /\ UNCHANGED initializedSlot
             /\ IF NotLoaded(local, slot)
                THEN /\ promises' = Append(promises,
                            Rejected("DracoDecoderModule not loaded", slot))
                     /\ state' = [state EXCEPT !.initPromise = p]
                     /\ returned' = Append(returned, [promise |-> p, early |-> FALSE])
                     /\ UNCHANGED factoryCalls
                ELSE IF TypeOf(local) = "function"
                THEN /\ promises' = Append(promises, Pending(slot))
                     /\ factoryCalls' = Append(factoryCalls,
                            [config |-> cfg, promise |-> p, status |-> "running"])
                     /\ state' = [state EXCEPT !.initPromise = p]
                     /\ returned' = Append(returned, [promise |-> p, early |-> TRUE])
                ELSE /\ promises' = Append(promises, Fulfilled(cfg, slot))
                     /\ state' = [decoderModule |-> cfg, isReady |-> TRUE,
                                  initPromise |-> p]
                     /\ returned' = Append(returned, [promise |-> p, early |-> FALSE])
                     /\ UNCHANGED factoryCalls

\* an explicit caller of window.initDracoDecoder()
CallInitDracoDecoder ==
    /\ Len(returned) < MaxCallers + (IF autoInit THEN 0 ELSE 1)
    /\ InitDracoDecoder
    /\ UNCHANGED <<slot, local, wasmBinary, glueLoaded, autoInit, present, hostLog>>
    /\ UNCHANGED <<xhrVars, netVars>>

\* Lines 480-493: the page-ready call
AutoInitDraco ==
    /\ autoInit
    /\ autoInit' = FALSE
    /\ InitDracoDecoder
    /\ UNCHANGED <<slot, local, wasmBinary, glueLoaded, present, hostLog>>
    /\ UNCHANGED <<xhrVars, netVars>>

\* ------------------------------------------------------------ the factory
\* The factory calls config.instantiateWasm(imports, successCallback),
\* lines 49-69: without bytes it returns {} and does nothing more;
\* with bytes it starts WebAssembly.instantiate.
InstantiateWasm(bytes) == IF bytes THEN "instantiating" ELSE "stalled"

FactoryInstantiates(k) ==
    /\ factoryCalls[k].status = "running"
    /\ factoryCalls[k].config.patched
    /\ factoryCalls' = [factoryCalls EXCEPT ![k].status = InstantiateWasm(wasmBinary)]
    /\ UNCHANGED <<slot, local, wasmBinary, state, promises, initializedSlot,
                   returned, glueLoaded, autoInit, present, hostLog>>
    /\ UNCHANGED <<xhrVars, netVars>>

\* Lines 61-63: WebAssembly.instantiate resolved, successCallback is called
WasmInstantiateThen(k) ==
    /\ factoryCalls[k].status = "instantiating"
    /\ factoryCalls' = [factoryCalls EXCEPT ![k].status = "instantiated"]
    /\ UNCHANGED <<slot, local, wasmBinary, state, promises, initializedSlot,
                   returned, glueLoaded, autoInit, present, hostLog>>
    /\ UNCHANGED <<xhrVars, netVars>>

\* Lines 64-66: WebAssembly.instantiate rejected, the error is logged
WasmInstantiateCatch(k) ==
    /\ factoryCalls[k].status = "instantiating"
    /\ factoryCalls' = [factoryCalls EXCEPT ![k].status = "instantiateFailed"]
    /\ UNCHANGED <<slot, local, wasmBinary, state, promises, initializedSlot,
                   returned, glueLoaded, autoInit, present, hostLog>>
    /\ UNCHANGED <<xhrVars, netVars>>

\* The factory's future resolves once the instance was handed over
FactoryResolves(k) ==
    /\ factoryCalls[k].status = "instantiated"
    /\ factoryCalls' = [factoryCalls EXCEPT ![k].status = "fulfilled"]
    /\ UNCHANGED <<slot, local, wasmBinary, state, promises, initializedSlot,
                   returned, glueLoaded, autoInit, present, hostLog>>
    /\ UNCHANGED <<xhrVars, netVars>>

\* The factory's future rejects (the runtime aborts while it is running)
FactoryRejects(k) ==
    /\ factoryCalls[k].status \in {"running", "instantiating", "instantiated"}
    /\ factoryCalls' = [factoryCalls EXCEPT ![k].status = "rejected"]
    /\ UNCHANGED <<slot, local, wasmBinary, state, promises, initializedSlot,
                   returned, glueLoaded, autoInit, present, hostLog>>
    /\ UNCHANGED <<xhrVars, netVars>>

\* Lines 104-114: the .then callback
ThenHandler(k) ==
    /\ factoryCalls[k].status = "fulfilled"
    /\ factoryCalls' = [factoryCalls EXCEPT ![k].status = "done"]
    /\ state' = [state EXCEPT !.decoderModule = ModuleOf(k), !.isReady = TRUE]
    /\ initializedSlot' = ModuleOf(k)
    /\ promises' = Settle(promises, factoryCalls[k].promise, "fulfilled", ModuleOf(k), "")
    /\ UNCHANGED <<slot, local, wasmBinary, returned, glueLoaded, autoInit, present, hostLog>>
    /\ UNCHANGED <<xhrVars, netVars>>

\* Line 115: .catch(reject)
CatchHandler(k) ==
    /\ factoryCalls[k].status = "rejected"
    /\ factoryCalls' = [factoryCalls EXCEPT ![k].status = "failed"]
    /\ promises' = Settle(promises, factoryCalls[k].promise, "rejected", Null, "factory rejected")
    /\ UNCHANGED <<slot, local, wasmBinary, state, initializedSlot,
                   returned, glueLoaded, autoInit, present, hostLog>>
    /\ UNCHANGED <<xhrVars, netVars>>

\* The glue script runs after the patch and defines the factory in the
\* global slot (lines 24-25 and 71-72 expect this order).
GlueScriptLoads ==
    /\ ~glueLoaded
    /\ TypeOf(local) # "function"
    /\ glueLoaded' = TRUE
    /\ slot' = GlueFactory
    /\ UNCHANGED <<local, wasmBinary, state, promises, initializedSlot,
                   returned, factoryCalls, autoInit, present, hostLog>>
    /\ UNCHANGED <<xhrVars, netVars>>

\* ------------------------------------------------- host integration shims
\* Lines 415, 434, 457: the Ready gate
ShimReady_always(st) == TRUE
ShimReady(st) == st.isReady /\ Truthy(st.decoderModule)

\* Lines 417, 436, 460: the value the shim leaves in window.DracoDecoderModule
ShimSlot_keep(st, win) == win
ShimSlot(st, win) == IF ShimReady(st) THEN st.decoderModule ELSE win

\* The original a wrapper delegates to. open calls originalOpen (line 409).
\* _parse and parse both call originalParse: the two declarations (lines
\* 428 and 451) are one function-scoped variable, so once GlbParser.parse
\* is patched it holds GlbParser's original.
OriginalOf(e, wrapped) ==
    IF e = "_parse" /\ "parse" \in wrapped THEN "parse" ELSE e

\* A wrapped entry point: inject, then delegate to the original
HostCall(e) ==
    /\ Len(hostLog) < MaxHostCalls
    /\ slot' = ShimSlot(state, slot)
    /\ hostLog' = Append(hostLog,
            [entry |-> e, ready |-> state.isReady, module |-> state.decoderModule,
             seen |-> ShimSlot(state, slot), orig |-> OriginalOf(e, present)])
    /\ UNCHANGED <<local, wasmBinary, state, promises, initializedSlot,
                   returned, factoryCalls, glueLoaded, autoInit, present>>
    /\ UNCHANGED <<xhrVars, netVars>>

\* Lines 411-423
ContainerHandlerOpen ==
    /\ "open" \in present
    /\ HostCall("open")
\* Lines 430-440
ContainerHandlerParse ==
    /\ "_parse" \in present
    /\ HostCall("_parse")
\* Lines 453-466
GlbParserParse ==
    /\ "parse" \in present
    /\ HostCall("parse")

Next ==
    \/ CallInitDracoDecoder
    \/ AutoInitDraco
    \/ \E k \in DOMAIN factoryCalls : FactoryInstantiates(k)
    \/ \E k \in DOMAIN factoryCalls : WasmInstantiateThen(k)
    \/ \E k \in DOMAIN factoryCalls : WasmInstantiateCatch(k)
    \/ \E k \in DOMAIN factoryCalls : FactoryResolves(k)
    \/ \E k \in DOMAIN factoryCalls : FactoryRejects(k)
    \/ \E k \in DOMAIN factoryCalls : ThenHandler(k)
    \/ \E k \in DOMAIN factoryCalls : CatchHandler(k)
    \/ GlueScriptLoads
    \/ ContainerHandlerOpen
    \/ ContainerHandlerParse
    \/ GlbParserParse

Spec == Init /\ [][Next]_vars

\* The event loop runs every queued reaction and timer: the promise
\* callbacks of lines 104-115 and 61-66 and the page-ready call.
LiveSpec ==
    /\ Spec
    /\ WF_vars(\E k \in DOMAIN factoryCalls :
                    WasmInstantiateThen(k) \/ WasmInstantiateCatch(k))
    /\ WF_vars(\E k \in DOMAIN factoryCalls : ThenHandler(k))
    /\ WF_vars(\E k \in DOMAIN factoryCalls : CatchHandler(k))
    /\ WF_vars(AutoInitDraco)

\* ---------------------------------------------------------------- strings
\* A string is the sequence of its characters.
FragWasmWasm == <<"d", "r", "a", "c", "o", ".", "w", "a", "s", "m", ".", "w", "a", "s", "m">>
FragWasmJs == <<"d", "r", "a", "c", "o", ".", "w", "a", "s", "m", ".", "j", "s">>
FragJs == <<"d", "r", "a", "c", "o", ".", "j", "s">>

\* String.prototype.indexOf: the first index (from 0) or -1
IndexOf(s, f) ==
    LET at == {i \in 1..(Len(s) - Len(f) + 1) : SubSeq(s, i, i + Len(f) - 1) = f}
    IN IF at = {} THEN -1 ELSE (CHOOSE i \in at : \A j \in at : i <= j) - 1

\* An identifier passed as url: a string, or an object (a URL instance)
\* whose text is chars.
Str(cs) == [isString |-> TRUE, chars |-> cs]
Obj(cs) == [isString |-> FALSE, chars |-> cs]

UrlWasm == Str(<<"/", "d", "r", "a", "c", "o", ".", "w", "a", "s", "m", ".", "w", "a", "s", "m">>)
UrlJs == Str(<<"a", "/", "d", "r", "a", "c", "o", ".", "j", "s">>)
UrlGlb == Str(<<"/", "m", ".", "g", "l", "b">>)
UrlObject == Obj(<<"/", "d", "r", "a", "c", "o", ".", "j", "s">>)
XhrUrls == {UrlWasm, UrlJs, UrlGlb, UrlObject}

\* ------------------------------------------------ XMLHttpRequest overrides
\* Lines 314-317: the codec-file rule of open
XhrMatches(url) ==
    /\ url.isString
    /\ (\/ IndexOf(url.chars, FragWasmWasm) # -1
        \/ IndexOf(url.chars, FragWasmJs) # -1
        \/ IndexOf(url.chars, FragJs) # -1)

XhrOps == LET Sum[o \in 0..MaxXhr] == IF o = 0 THEN 0 ELSE Sum[o - 1] + Len(hist[o])
          IN Sum[MaxXhr]

OpenEvent(url) ==
    [op |-> "open", url |-> url, delegated |-> TRUE,
     fired |-> FALSE, hadHandler |-> FALSE, calls |-> 0]
SendEvent(url, delegated) ==
    [op |-> "send", url |-> url, delegated |-> delegated,
     fired |-> FALSE, hadHandler |-> FALSE, calls |-> 0]

\* the url of the latest open on the object
LastOpen(h) ==
    LET opens == {i \in DOMAIN h : h[i].op = "open"}
    IN h[CHOOSE i \in opens : \A j \in opens : j <= i].url

\* Lines 313-323: flag the object on a match, then the original open
XhrOpen(o, url) ==
    /\ XhrOps < MaxXhrOps
    /\ xhr' = [xhr EXCEPT ![o].blocked = IF XhrMatches(url) THEN TRUE ELSE @]
    /\ hist' = [hist EXCEPT ![o] = Append(@, OpenEvent(url))]
    /\ UNCHANGED timers
    /\ UNCHANGED <<ctlVars, netVars>>

\* Line 327: if (this.__dracoBlocked)
SendBlocked_never(x) == FALSE
SendBlocked(x) == x.blocked

\* Lines 326-338: a flagged object schedules the error callback and
\* returns; any other object reaches the original send
XhrSend(o) ==
    /\ XhrOps < MaxXhrOps
    /\ \E i \in DOMAIN hist[o] : hist[o][i].op = "open"
    /\ IF SendBlocked(xhr[o])
       THEN /\ timers' = Append(timers, [obj |-> o, event |-> Len(hist[o]) + 1])
            /\ hist' = [hist EXCEPT ![o] = Append(@, SendEvent(LastOpen(hist[o]), FALSE))]
       ELSE /\ hist' = [hist EXCEPT ![o] = Append(@, SendEvent(LastOpen(hist[o]), TRUE))]
            /\ UNCHANGED timers
    /\ UNCHANGED xhr
    /\ UNCHANGED <<ctlVars, netVars>>

\* Lines 331-333: the handlers the deferred callback invokes
ErrorCalls(x) == IF x.onerror THEN 1 ELSE 0

\* Lines 330-334: the deferred callback of the oldest suppressed send
XhrTimerFires ==
    /\ timers # <<>>
    /\ LET t == Head(timers)
       IN hist' = [hist EXCEPT ![t.obj][t.event] =
                     [@ EXCEPT !.fired = TRUE,
                               !.hadHandler = xhr[t.obj].onerror \/ xhr[t.obj].listener,
                               !.calls = @ + ErrorCalls(xhr[t.obj])]]
    /\ timers' = Tail(timers)
    /\ UNCHANGED xhr
    /\ UNCHANGED <<ctlVars, netVars>>

\* The caller assigns xhr.onerror, the property line 331 reads
XhrSetOnerror(o) ==
    /\ ~xhr[o].onerror
    /\ xhr' = [xhr EXCEPT ![o].onerror = TRUE]
    /\ UNCHANGED <<hist, timers>>
    /\ UNCHANGED <<ctlVars, netVars>>

\* The caller registers its handler with addEventListener('error', h),
\* which lines 330-334 never dispatch to
XhrAddErrorListener(o) ==
    /\ ~xhr[o].listener
    /\ xhr' = [xhr EXCEPT ![o].listener = TRUE]
    /\ UNCHANGED <<hist, timers>>
    /\ UNCHANGED <<ctlVars, netVars>>

\* the controller at rest while the request objects are exercised
CtlIdle ==
    /\ local = Install(Undefined)
    /\ slot = Install(Undefined)
    /\ wasmBinary = TRUE
    /\ state = InitialState
    /\ promises = <<>>
    /\ initializedSlot = Undefined
    /\ returned = <<>>
    /\ factoryCalls = <<>>
    /\ glueLoaded = FALSE
    /\ autoInit = TRUE
    /\ present = {}
    /\ hostLog = <<>>

XhrInit == XhrIdle /\ CtlIdle /\ NetIdle

XhrNext ==
    \/ \E o \in 1..MaxXhr, url \in XhrUrls : XhrOpen(o, url)
    \/ \E o \in 1..MaxXhr : XhrSend(o)
    \/ XhrTimerFires
    \/ \E o \in 1..MaxXhr : XhrSetOnerror(o)
    \/ \E o \in 1..MaxXhr : XhrAddErrorListener(o)

XhrSpec == XhrInit /\ [][XhrNext]_vars

\* ----------------------------------------------------- embedded resources
\* The page assigns window.__DRACO_DECODER_CODE__ or
\* window.__DRACO_WASM_BINARY__ after the patch ran (lines 31-38 and 50
\* read the global again later): the bytes exist, no blob URL was derived.
EmbedLate(kind) ==
    /\ kind \in {"decoderCode", "wasmBinary"}
    /\ ~reg[kind]
    /\ reg' = [reg EXCEPT ![kind] = TRUE]

RegInit == \E code \in BOOLEAN, wasm \in BOOLEAN : reg = Registry(code, wasm)

\* ------------------------------------------------------------ window.fetch
MaxFetch == 2        \* calls of window.fetch

FragDecoderWasm == <<"d", "r", "a", "c", "o", "_", "d", "e", "c", "o", "d", "e", "r", ".", "w", "a", "s", "m">>
UrlWasmJs == Str(<<"/", "d", "r", "a", "c", "o", ".", "w", "a", "s", "m", ".", "j", "s">>)
UrlDecoderWasm == Str(<<"/", "d", "r", "a", "c", "o", "_", "d", "e", "c", "o", "d", "e", "r", ".", "w", "a", "s", "m">>)
WasmBlobUrl == Str(<<"b", "l", "o", "b", ":", "w">>)
DecoderBlobUrl == Str(<<"b", "l", "o", "b", ":", "d">>)
FetchUrls == {UrlWasm, UrlWasmJs, UrlJs, UrlGlb, UrlDecoderWasm, UrlObject}
\* the second argument of fetch, when given
FetchInit == Str(<<"i", "n", "i", "t">>)

Has(url, frag) == IndexOf(url.chars, frag) # -1

\* Lines 257-260
FetchMatches(url) ==
    /\ url.isString
    /\ (Has(url, FragWasmWasm) \/ Has(url, FragWasmJs) \/ Has(url, FragJs))

\* how a call was answered: by the original fetch (receiver, arguments),
\* by a synthetic Response, or by a rejected promise
ViaOriginal(recv, args) ==
    [via |-> "original", recv |-> recv, args |-> args,
     status |-> 0, body |-> "", contentType |-> "", error |-> ""]
Synthetic(body, type) ==
    [via |-> "synthetic", recv |-> "", args |-> <<>>,
     status |-> 200, body |-> body, contentType |-> type, error |-> ""]
Reject(error) ==
    [via |-> "reject", recv |-> "", args |-> <<>>,
     status |-> 0, body |-> "", contentType |-> "", error |-> error]

\* Lines 266-279
WasmAnswer_syntheticFirst(recv, r) ==
    IF r.wasmBinary THEN Synthetic("wasmBinary", "application/wasm")
    ELSE IF r.wasmUrl THEN ViaOriginal(recv, <<WasmBlobUrl>>)
    ELSE Reject("Draco WASM not embedded")
WasmAnswer(recv, r) ==
    IF r.wasmUrl THEN ViaOriginal(recv, <<WasmBlobUrl>>)
    ELSE IF r.wasmBinary THEN Synthetic("wasmBinary", "application/wasm")
    ELSE Reject("Draco WASM not embedded")

\* Lines 285-298
JsAnswer(recv, r) ==
    IF r.decoderUrl THEN ViaOriginal(recv, <<DecoderBlobUrl>>)
    ELSE IF r.decoderCode THEN Synthetic("decoderCode", "text/javascript")
    ELSE Reject("Draco decoder not embedded")

\* Line 304: originalFetch.apply(this, arguments)
PassThrough_urlOnly(recv, args) == ViaOriginal(recv, <<args[1]>>)
PassThrough(recv, args) == ViaOriginal(recv, args)

\* Lines 256-305
FetchAnswer(recv, args, r) ==
    LET url == args[1]
    IN IF FetchMatches(url)
       THEN IF Has(url, FragWasmWasm) \/ Has(url, FragDecoderWasm)
            THEN WasmAnswer(recv, r)
            ELSE IF Has(url, FragWasmJs) \/ Has(url, FragJs)
            THEN JsAnswer(recv, r)
            ELSE Reject("Unknown Draco file")
       ELSE PassThrough(recv, args)

Fetch(recv, args) ==
    /\ Len(fetchLog) < MaxFetch
    /\ fetchLog' = Append(fetchLog,
            [recv |-> recv, args |-> args, reg |-> reg,
             answer |-> FetchAnswer(recv, args, reg)])
    /\ UNCHANGED <<reg, scriptLog, blobLog, workers, httpLog>>
    /\ UNCHANGED <<ctlVars, xhrVars>>

FetchEmbedLate ==
    /\ \E kind \in {"decoderCode", "wasmBinary"} : EmbedLate(kind)
    /\ UNCHANGED <<fetchLog, scriptLog, blobLog, workers, httpLog>>
    /\ UNCHANGED <<ctlVars, xhrVars>>

FetchInitState ==
    /\ RegInit
    /\ fetchLog = <<>> /\ scriptLog = <<>> /\ blobLog = <<>>
    /\ workers = <<>> /\ httpLog = <<>>
    /\ CtlIdle /\ XhrIdle

FetchNext ==
    \/ \E recv \in {"window", "worker"}, url \in FetchUrls :
          \E args \in {<<url>>, <<url, FetchInit>>} : Fetch(recv, args)
    \/ FetchEmbedLate

FetchSpec == FetchInitState /\ [][FetchNext]_vars

\* ------------------------------------------------- document.createElement
MaxScriptOps == 2    \* src / attribute assignments on created elements

TagScript == <<"s", "c", "r", "i", "p", "t">>
TagScriptUpper == <<"S", "C", "R", "I", "P", "T">>
TagDiv == <<"d", "i", "v">>
AttrSrc == <<"s", "r", "c">>
AttrId == <<"i", "d">>

\* String.prototype.toLowerCase over the letters in use
LowerChar(c) ==
    CASE c = "S" -> "s" [] c = "C" -> "c" [] c = "R" -> "r"
      [] c = "I" -> "i" [] c = "P" -> "p" [] c = "T" -> "t" [] OTHER -> c
ToLowerCase(s) == [i \in DOMAIN s |-> LowerChar(s[i])]

\* Line 350: the element gets the wrappers
IsScriptTag(tag) == ToLowerCase(tag) = TagScript

\* Lines 354-356
SetAttributeDrops(name, value) ==
    /\ name = AttrSrc
    /\ value.isString
    /\ (Has(value, FragWasmJs) \/ Has(value, FragJs))

\* Lines 370-371
SrcSetterDrops_never(value) == FALSE
SrcSetterDrops(value) ==
    /\ value.isString
    /\ (Has(value, FragWasmJs) \/ Has(value, FragJs))

\* Lines 352-363: element.setAttribute(name, value); the result is the
\* arguments that reach the original setAttribute, if any
SetAttribute(tag, name, value) ==
    IF IsScriptTag(tag) /\ SetAttributeDrops(name, value)
    THEN <<>>
    ELSE <<name, value>>

\* Lines 368-378: element.src = value; the result is the arguments that
\* reach the original src setter, if any
SetSrc(tag, value) ==
    IF IsScriptTag(tag) /\ SrcSetterDrops(value)
    THEN <<>>
    ELSE <<value>>

ScriptSetAttribute(tag, name, value) ==
    /\ Len(scriptLog) < MaxScriptOps
    /\ scriptLog' = Append(scriptLog,
            [tag |-> tag, path |-> "setAttribute", name |-> name, value |-> value,
             original |-> SetAttribute(tag, name, value)])
    /\ UNCHANGED <<reg, fetchLog, blobLog, workers, httpLog>>
    /\ UNCHANGED <<ctlVars, xhrVars>>

ScriptSetSrc(tag, value) ==
    /\ Len(scriptLog) < MaxScriptOps
    /\ scriptLog' = Append(scriptLog,
            [tag |-> tag, path |-> "property", name |-> AttrSrc, value |-> value,
             original |-> SetSrc(tag, value)])
    /\ UNCHANGED <<reg, fetchLog, blobLog, workers, httpLog>>
    /\ UNCHANGED <<ctlVars, xhrVars>>

ScriptTags == {TagScript, TagScriptUpper, TagDiv}
ScriptValues == {UrlJs, UrlWasmJs, UrlWasm, UrlGlb, UrlObject}

ScriptInit == CtlIdle /\ XhrIdle /\ NetIdle

ScriptNext ==
    \/ \E tag \in ScriptTags, name \in {AttrSrc, AttrId}, value \in ScriptValues :
          ScriptSetAttribute(tag, name, value)
    \/ \E tag \in ScriptTags, value \in ScriptValues : ScriptSetSrc(tag, value)

ScriptSpec == ScriptInit /\ [][ScriptNext]_vars

\* ------------------------------------------------------------- window.Blob
MaxBlobs == 2        \* calls of the Blob constructor

\* A script text is the sequence of its pieces (lines, identifiers);
\* concatenation is \o and indexOf is IndexOf over pieces.
CodecName == <<"DracoDecoderModule">>
\* window.__DRACO_DECODER_CODE__
DecoderCode == <<"var ", "DracoDecoderModule", " = function(c){};">>
WorkerRef == Str(<<"var m = ", "DracoDecoderModule", "(cfg);\n">>)
WorkerPlain == Str(<<"postMessage(1);\n">>)
WorkerTail == Str(<<"onmessage = f;\n">>)
\* a part that is not a string (an ArrayBuffer)
BufferPart == Obj(<<"DracoDecoderModule">>)

\* Lines 175-182
ShimText(url) ==
    <<"// Module config for WASM loading\n",
      "var Module = Module || {};\n",
      "Module.locateFile = function(path) {\n",
      "  if (path.indexOf(\"draco\") !== -1 || path.indexOf(\".wasm\") !== -1) {\n",
      "    return \"">> \o url.chars \o <<"\";\n",
      "  }\n",
      "  return path;\n",
      "};\n\n">>

\* Lines 188-195
GlueText(code) ==
    <<"// Embedded Draco Decoder Module\n",
      "(function() {\n">> \o code \o <<"\n",
      "// Ensure DracoDecoderModule is accessible globally in worker\n",
      "if (typeof DracoDecoderModule !== \"undefined\") {\n",
      "  self.DracoDecoderModule = DracoDecoderModule;\n",
      "}\n",
      "})();\n\n">>

\* Lines 171-201
InjectedCode_glueFirst(code, r) ==
    (IF r.decoderCode THEN GlueText(DecoderCode) ELSE <<>>)
    \o (IF r.wasmUrl THEN ShimText(WasmBlobUrl) ELSE <<>>)
    \o <<"// Original Worker Code\n">> \o code
InjectedCode(code, r) ==
    (IF r.wasmUrl THEN ShimText(WasmBlobUrl) ELSE <<>>)
    \o (IF r.decoderCode THEN GlueText(DecoderCode) ELSE <<>>)
    \o <<"// Original Worker Code\n">> \o code

\* Lines 165-167: the blob looks like a worker script naming the codec
LooksLikeWorker(parts, type) ==
    /\ type = "application/javascript"
    /\ Len(parts) > 0
    /\ parts[1].isString
    /\ IndexOf(parts[1].chars, CodecName) # -1

\* Lines 163-207: the parts handed to the original constructor
BlobParts(parts, type, r) ==
    IF LooksLikeWorker(parts, type)
    THEN <<Str(InjectedCode(parts[1].chars, r))>>
    ELSE parts

NewBlob(parts, type) ==
    /\ Len(blobLog) < MaxBlobs
    /\ blobLog' = Append(blobLog,
            [parts |-> parts, type |-> type, reg |-> reg,
             rewritten |-> LooksLikeWorker(parts, type),
             out |-> BlobParts(parts, type, reg)])
    /\ UNCHANGED <<reg, fetchLog, scriptLog, workers, httpLog>>
    /\ UNCHANGED <<ctlVars, xhrVars>>

BlobEmbedLate ==
    /\ \E kind \in {"decoderCode", "wasmBinary"} : EmbedLate(kind)
    /\ UNCHANGED <<fetchLog, scriptLog, blobLog, workers, httpLog>>
    /\ UNCHANGED <<ctlVars, xhrVars>>

BlobInputs ==
    {<<WorkerRef>>, <<WorkerRef, WorkerTail>>, <<WorkerPlain, WorkerRef>>,
     <<WorkerPlain>>, <<BufferPart>>, <<>>}
\* options.type; "none" when no options are given
BlobTypes == {"application/javascript", "text/javascript", "none"}

BlobInit ==
    /\ RegInit
    /\ fetchLog = <<>> /\ scriptLog = <<>> /\ blobLog = <<>>
    /\ workers = <<>> /\ httpLog = <<>>
    /\ CtlIdle /\ XhrIdle

BlobNext ==
    \/ \E parts \in BlobInputs, type \in BlobTypes : NewBlob(parts, type)
    \/ BlobEmbedLate

BlobSpec == BlobInit /\ [][BlobNext]_vars

\* ----------------------------------------------------------- window.Worker
MaxWorkers == 2      \* workers constructed

\* Lines 235-239
InitMessage ==
    [type |-> "init", decoderCode |-> "decoderCode", wasmBinary |-> "wasmBinary"]

\* Line 231
CanInject_either(r) == r.decoderCode \/ r.wasmBinary
CanInject(r) == r.decoderCode /\ r.wasmBinary

\* Lines 217-247: construct the original worker and schedule the callback;
\* nothing is posted inside the constructor
NewWorker(scriptURL) ==
    /\ Len(workers) < MaxWorkers
    /\ workers' = Append(workers,
            [script |-> scriptURL, fired |-> FALSE, regAtFire |-> reg, messages |-> <<>>])
    /\ UNCHANGED <<reg, fetchLog, scriptLog, blobLog, httpLog>>
    /\ UNCHANGED <<ctlVars, xhrVars>>

\* Lines 227-244: the deferred callback of the oldest worker still waiting
WorkerTimerFires(w) ==
    /\ w \in DOMAIN workers
    /\ ~workers[w].fired
    /\ \A v \in 1..(w - 1) : workers[v].fired
    /\ workers' = [workers EXCEPT
            ![w].fired = TRUE,
            ![w].regAtFire = reg,
            ![w].messages = IF CanInject(reg) THEN Append(@, InitMessage) ELSE @]
    /\ UNCHANGED <<reg, fetchLog, scriptLog, blobLog, httpLog>>
    /\ UNCHANGED <<ctlVars, xhrVars>>

WorkerEmbedLate ==
    /\ \E kind \in {"decoderCode", "wasmBinary"} : EmbedLate(kind)
    /\ UNCHANGED <<fetchLog, scriptLog, blobLog, workers, httpLog>>
    /\ UNCHANGED <<ctlVars, xhrVars>>

WorkerInit ==
    /\ RegInit
    /\ fetchLog = <<>> /\ scriptLog = <<>> /\ blobLog = <<>>
    /\ workers = <<>> /\ httpLog = <<>>
    /\ CtlIdle /\ XhrIdle

WorkerNext ==
    \/ \E scriptURL \in {WasmBlobUrl, UrlGlb, UrlJs} : NewWorker(scriptURL)
    \/ \E w \in 1..MaxWorkers : WorkerTimerFires(w)
    \/ WorkerEmbedLate

WorkerSpec == WorkerInit /\ [][WorkerNext]_vars

\* ----------------------------------------------------- pc.Http.prototype.get
MaxHttpCalls == 2    \* calls of pc.Http.prototype.get

\* String.prototype.startsWith, substring(a, b) and slice(a), from index 0
StartsWith(s, p) == Len(s) >= Len(p) /\ SubSeq(s, 1, Len(p)) = p
Substring(s, a, b) == SubSeq(s, a + 1, b)
Slice(s, a) == SubSeq(s, a + 1, Len(s))
\* s.split(sep)[0]
SplitFirst(s, sep) ==
    IF IndexOf(s, <<sep>>) = -1 THEN s ELSE SubSeq(s, 1, IndexOf(s, <<sep>>))

\* window.atob (line 46). The result is a binary string: the sequence of
\* its character codes 0..255.
Base64Alphabet ==
    <<"A", "B", "C", "D", "E", "F", "G", "H", "I", "J", "K", "L", "M", "N", "O", "P",
      "Q", "R", "S", "T", "U", "V", "W", "X", "Y", "Z", "a", "b", "c", "d", "e", "f",
      "g", "h", "i", "j", "k", "l", "m", "n", "o", "p", "q", "r", "s", "t", "u", "v",
      "w", "x", "y", "z", "0", "1", "2", "3", "4", "5", "6", "7", "8", "9", "+", "/">>
IsBase64Char(c) == \E i \in 1..64 : Base64Alphabet[i] = c
Base64Value(c) == (CHOOSE i \in 1..64 : Base64Alphabet[i] = c) - 1

StripPadding_never(s) == s
\* the padding is dropped when the length is a multiple of 4
StripPadding(s) ==
    IF Len(s) > 0 /\ Len(s) % 4 = 0 /\ s[Len(s)] = "="
    THEN IF s[Len(s) - 1] = "=" THEN SubSeq(s, 1, Len(s) - 2)
         ELSE SubSeq(s, 1, Len(s) - 1)
    ELSE s

RECURSIVE DecodeGroups(_)
DecodeGroups(s) ==
    IF Len(s) < 2 THEN <<>>
    ELSE LET v(i) == IF i <= Len(s) THEN Base64Value(s[i]) ELSE 0
             n == v(1) * 262144 + v(2) * 4096 + v(3) * 64 + v(4)
             b1 == n \div 65536
             b2 == (n \div 256) % 256
             b3 == n % 256
         IN IF Len(s) = 2 THEN <<b1>>
            ELSE IF Len(s) = 3 THEN <<b1, b2>>
            ELSE <<b1, b2, b3>> \o DecodeGroups(SubSeq(s, 5, Len(s)))

\* atob throws InvalidCharacterError on a character outside the alphabet
\* or a length of 1 modulo 4
Atob(s) ==
    LET d == StripPadding(s)
    IN IF Len(d) % 4 = 1 \/ \E i \in DOMAIN d : ~IsBase64Char(d[i])
       THEN [ok |-> FALSE, bytes |-> <<>>]
       ELSE [ok |-> TRUE, bytes |-> DecodeGroups(d)]

\* JSON.parse (line 60) over character codes: numbers, strings without
\* escapes, and objects; anything else is a SyntaxError.
JNull == [t |-> "null", n |-> 0, s |-> <<>>, members |-> <<>>]
JNum(n) == [t |-> "number", n |-> n, s |-> <<>>, members |-> <<>>]
JStr(s) == [t |-> "string", n |-> 0, s |-> s, members |-> <<>>]
JObj(members) == [t |-> "object", n |-> 0, s |-> <<>>, members |-> members]
JFail == [ok |-> FALSE, value |-> JNull, rest |-> <<>>]
JOk(v, rest) == [ok |-> TRUE, value |-> v, rest |-> rest]

IsDigit(c) == c >= 48 /\ c <= 57

RECURSIVE JsonNumber(_, _)
JsonNumber(s, acc) ==
    IF s # <<>> /\ IsDigit(s[1]) THEN JsonNumber(Tail(s), acc * 10 + (s[1] - 48))
    ELSE JOk(JNum(acc), s)

\* s starts with the opening quote
JsonString(s) ==
    LET close == {i \in 2..Len(s) : s[i] = 34}
    IN IF close = {} THEN JFail
       ELSE LET c == CHOOSE i \in close : \A j \in close : i <= j
            IN JOk(JStr(SubSeq(s, 2, c - 1)), SubSeq(s, c + 1, Len(s)))

RECURSIVE JsonValue(_), JsonMembers(_, _)
JsonValue(s) ==
    IF s = <<>> THEN JFail
    ELSE IF IsDigit(s[1]) THEN JsonNumber(s, 0)
    ELSE IF s[1] = 34 THEN JsonString(s)
    ELSE IF s[1] = 123
    THEN IF Len(s) >= 2 /\ s[2] = 125 THEN JOk(JObj(<<>>), SubSeq(s, 3, Len(s)))
         ELSE JsonMembers(Tail(s), <<>>)
    ELSE JFail

\* s starts at a member's key; acc holds the members read so far
JsonMembers(s, acc) ==
    IF s = <<>> \/ s[1] # 34 THEN JFail
    ELSE LET k == JsonString(s)
         IN IF ~k.ok \/ k.rest = <<>> \/ k.rest[1] # 58 THEN JFail
            ELSE LET v == JsonValue(Tail(k.rest))
                     all == Append(acc, [key |-> k.value.s, value |-> v.value])
                 IN IF ~v.ok \/ v.rest = <<>> THEN JFail
                    ELSE IF v.rest[1] = 125 THEN JOk(JObj(all), Tail(v.rest))
                    ELSE IF v.rest[1] = 44 THEN JsonMembers(Tail(v.rest), all)
                    ELSE JFail

JsonParse(s) ==
    LET r == JsonValue(s)
    IN IF r.ok /\ r.rest = <<>> THEN r ELSE JFail

\* what the callback receives as data
NoData == [kind |-> "null", text |-> <<>>, json |-> JNull, type |-> <<>>]
TextData(s) == [kind |-> "string", text |-> s, json |-> JNull, type |-> <<>>]
JsonData(v) == [kind |-> "json", text |-> <<>>, json |-> v, type |-> <<>>]
BufferData(b) == [kind |-> "buffer", text |-> b, json |-> JNull, type |-> <<>>]
BlobData(b, type) == [kind |-> "blob", text |-> b, json |-> JNull, type |-> type]

\* the outcome of a call: the callback invocations and what was thrown
Called(err, data) == [thrown |-> "", callbacks |-> <<[err |-> err, data |-> data]>>]
Thrown(name) == [thrown |-> name, callbacks |-> <<>>]

PrefixData == <<"d", "a", "t", "a", ":">>
PrefixJson == <<"d", "a", "t", "a", ":", "a", "p", "p", "l", "i", "c", "a", "t", "i", "o", "n", "/", "j", "s", "o", "n">>
PrefixTextPlain == <<"d", "a", "t", "a", ":", "t", "e", "x", "t", "/", "p", "l", "a", "i", "n">>
PrefixTextJs == <<"d", "a", "t", "a", ":", "t", "e", "x", "t", "/", "j", "a", "v", "a", "s", "c", "r", "i", "p", "t">>
PrefixImage == <<"d", "a", "t", "a", ":", "i", "m", "a", "g", "e", "/">>

\* Lines 19-21
IsDracoFile(url) ==
    \/ IndexOf(url, FragWasmJs) # -1
    \/ IndexOf(url, FragWasmWasm) # -1
    \/ IndexOf(url, FragJs) # -1

Decode_imageAsBuffer(url, index, opt) ==
    LET data == Atob(Slice(url, index + 1))
        isJson == StartsWith(url, PrefixJson) \/ opt = "json"
        isText == StartsWith(url, PrefixTextPlain) \/ StartsWith(url, PrefixTextJs)
    IN IF ~data.ok THEN Thrown("InvalidCharacterError")
       ELSE IF isJson
       THEN IF JsonParse(data.bytes).ok
            THEN Called("", JsonData(JsonParse(data.bytes).value))
            ELSE Thrown("SyntaxError")
       ELSE IF isText THEN Called("", TextData(data.bytes))
       ELSE Called("", BufferData(data.bytes))

\* Lines 44-86, once the comma was found at index; opt is "json" when
\* options.responseType is pc.Http.ResponseType.JSON
Decode(url, index, opt) ==
    LET mimeInfo == Substring(url, 5, index)
        data == Atob(Slice(url, index + 1))
        mimeType == SplitFirst(mimeInfo, ";")
        isJson == StartsWith(url, PrefixJson) \/ opt = "json"
        isText == StartsWith(url, PrefixTextPlain) \/ StartsWith(url, PrefixTextJs)
        isImage == StartsWith(url, PrefixImage)
    IN IF ~data.ok THEN Thrown("InvalidCharacterError")
       ELSE IF isJson
       THEN IF JsonParse(data.bytes).ok
            THEN Called("", JsonData(JsonParse(data.bytes).value))
            ELSE Thrown("SyntaxError")
       ELSE IF isText THEN Called("", TextData(data.bytes))
       ELSE IF isImage THEN Called("", BlobData(data.bytes, mimeType))
       ELSE Called("", BufferData(data.bytes))

HttpGetResult_validateFirst(url, opt) ==
    IF ~StartsWith(url, PrefixData) THEN Called("Invalid data URL format", NoData)
    ELSE IF IsDracoFile(url) THEN Called("", TextData(<<>>))
    ELSE IF IndexOf(url, <<",">>) = -1 THEN Called("Invalid data URL", NoData)
    ELSE Decode(url, IndexOf(url, <<",">>), IF opt = "callback" THEN "empty" ELSE opt)

\* Lines 10-87. opt is "callback" when the callback is passed as options
\* (lines 11-14), which leaves options = {}.
HttpGetResult(url, opt) ==
    IF IsDracoFile(url) THEN Called("", TextData(<<>>))
    ELSE IF ~StartsWith(url, PrefixData) THEN Called("Invalid data URL format", NoData)
    ELSE IF IndexOf(url, <<",">>) = -1 THEN Called("Invalid data URL", NoData)
    ELSE Decode(url, IndexOf(url, <<",">>), IF opt = "callback" THEN "empty" ELSE opt)

\* whether the call reaches window.atob (line 46)
CallsAtob(url) ==
    ~IsDracoFile(url) /\ StartsWith(url, PrefixData) /\ IndexOf(url, <<",">>) # -1

HttpGet(url, opt) ==
    /\ Len(httpLog) < MaxHttpCalls
    /\ httpLog' = Append(httpLog,
            [url |-> url, opt |-> opt, result |-> HttpGetResult(url, opt),
             decoded |-> CallsAtob(url)])
    /\ UNCHANGED <<reg, fetchLog, scriptLog, blobLog, workers>>
    /\ UNCHANGED <<ctlVars, xhrVars>>

HttpUrls ==
    { <<"n", "o", "t", "-", "a", "-", "d", "a", "t", "a", "-", "u", "r", "l">>,
      <<"d", "a", "t", "a", ":", "t", "e", "x", "t", "/", "p", "l", "a", "i", "n", ";", "b", "a", "s", "e", "6", "4">>,
      <<"d", "a", "t", "a", ":", "t", "e", "x", "t", "/", "p", "l", "a", "i", "n", ";", "b", "a", "s", "e", "6", "4", ",", "%", "%", "%", "%">>,
      <<"d", "a", "t", "a", ":", "t", "e", "x", "t", "/", "p", "l", "a", "i", "n", ";", "b", "a", "s", "e", "6", "4", ",", "a", "G", "k", "=">>,
      <<"d", "a", "t", "a", ":", "a", "p", "p", "l", "i", "c", "a", "t", "i", "o", "n", "/", "j", "s", "o", "n", ";", "b", "a", "s", "e", "6", "4", ",", "e", "w", "=", "=">>,
      <<"d", "a", "t", "a", ":", "a", "p", "p", "l", "i", "c", "a", "t", "i", "o", "n", "/", "j", "s", "o", "n", ";", "b", "a", "s", "e", "6", "4", ",", "e", "y", "J", "h", "I", "j", "o", "x", "f", "Q", "=", "=">>,
      <<"d", "a", "t", "a", ":", "a", "p", "p", "l", "i", "c", "a", "t", "i", "o", "n", "/", "j", "s", "o", "n", ",", "e", "y", "J", "h", "I", "j", "o", "x", "f", "Q", "=", "=">>,
      <<"d", "a", "t", "a", ":", "a", "p", "p", "l", "i", "c", "a", "t", "i", "o", "n", "/", "j", "s", "o", "n", ",", "%", "7", "B", "%", "2", "2", "a", "%", "2", "2", "%", "3", "A", "1", "%", "7", "D">>,
      <<"d", "a", "t", "a", ":", "i", "m", "a", "g", "e", "/", "p", "n", "g", ";", "b", "a", "s", "e", "6", "4", ",", "A", "A", "E", "C">>,
      <<"d", "a", "t", "a", ":", "a", "p", "p", "l", "i", "c", "a", "t", "i", "o", "n", "/", "o", "c", "t", "e", "t", "-", "s", "t", "r", "e", "a", "m", ";", "b", "a", "s", "e", "6", "4", ",", "/", "w", "=", "=">>,
      <<"h", "t", "t", "p", "s", ":", "/", "/", "c", "d", "n", "/", "d", "r", "a", "c", "o", ".", "w", "a", "s", "m", ".", "j", "s">>,
      <<"l", "i", "b", "/", "d", "r", "a", "c", "o", ".", "j", "s">>,
      <<"d", "a", "t", "a", ":", "t", "e", "x", "t", "/", "j", "a", "v", "a", "s", "c", "r", "i", "p", "t", ";", "b", "a", "s", "e", "6", "4", ",", "M", "Q", "=", "=">>,
      <<"d", "a", "t", "a", ":", "a", "p", "p", "l", "i", "c", "a", "t", "i", "o", "n", "/", "w", "a", "s", "m", ";", "b", "a", "s", "e", "6", "4", ",", "A", "G", "F", "z", "b", "Q", "=", "=">> }
HttpOptions == {"callback", "empty", "json"}

HttpInit == CtlIdle /\ XhrIdle /\ NetIdle

HttpNext == \E url \in HttpUrls, opt \in HttpOptions : HttpGet(url, opt)

HttpSpec == HttpInit /\ [][HttpNext]_vars

\* ------------------------------------------- base64 data URLs and get
MaxRoundTrips == 1   \* calls of get on an encoded byte sequence
MaxBytes == 3        \* length of the longer encoded byte sequences

\* The encoder that produces the embedded data URLs: standard base64 with
\* padding, after the octet-stream metadata.
RECURSIVE Btoa(_)
Btoa(b) ==
    IF b = <<>> THEN <<>>
    ELSE LET byte(i) == IF i <= Len(b) THEN b[i] ELSE 0
             n == byte(1) * 65536 + byte(2) * 256 + byte(3)
             c(k) == Base64Alphabet[((n \div (64 ^ (4 - k))) % 64) + 1]
         IN IF Len(b) = 1 THEN <<c(1), c(2), "=", "=">>
            ELSE IF Len(b) = 2 THEN <<c(1), c(2), c(3), "=">>
            ELSE <<c(1), c(2), c(3), c(4)>> \o Btoa(SubSeq(b, 4, Len(b)))

PrefixOctetStream == <<"d", "a", "t", "a", ":", "a", "p", "p", "l", "i", "c", "a", "t", "i", "o", "n", "/", "o", "c", "t", "e", "t", "-", "s", "t", "r", "e", "a", "m", ";", "b", "a", "s", "e", "6", "4", ",">>
DataUrl(b) == PrefixOctetStream \o Btoa(b)

\* every single byte, and the sequences up to MaxBytes over a few bytes
ByteValues == {0, 65, 127, 128, 255}
ByteSeqs ==
    {<<b>> : b \in 0..255}
        \cup UNION {[1..n -> ByteValues] : n \in 0..MaxBytes}

\* get applied to the data URL of a byte sequence; the entry keeps the bytes
HttpRoundTrip(b) ==
    /\ Len(httpLog) < MaxRoundTrips
    /\ httpLog' = Append(httpLog,
            [url |-> DataUrl(b), opt |-> "empty", result |-> HttpGetResult(DataUrl(b), "empty"),
             decoded |-> CallsAtob(DataUrl(b)), bytes |-> b])
    /\ UNCHANGED <<reg, fetchLog, scriptLog, blobLog, workers>>
    /\ UNCHANGED <<ctlVars, xhrVars>>

RoundTripInit == CtlIdle /\ XhrIdle /\ NetIdle

RoundTripNext == \E b \in ByteSeqs : HttpRoundTrip(b)

RoundTripSpec == RoundTripInit /\ [][RoundTripNext]_vars

\* ================================================================= claims
\* what a holder of promise p observes
Outcome(p) ==
    [status |-> promises[p].status, value |-> promises[p].value,
     reason |-> promises[p].reason]

\* C1: all callers of initDracoDecoder, whenever they called, observe the
\* identical outcome: the same module or the same failure, never two
\* different modules.
C1_SameOutcome ==
    \A i, j \in DOMAIN returned :
        Outcome(returned[i].promise) = Outcome(returned[j].promise)

\* two callers that both called before completion hold the produced module
C1_Witness ==
    \E i, j \in DOMAIN returned :
        /\ i # j
        /\ returned[i].early /\ returned[j].early
        /\ promises[returned[i].promise].status = "fulfilled"
        /\ promises[returned[j].promise].value.tag = "module"

\* C2: over any sequence of calls (explicit and page-ready) the factory is
\* invoked at most once, and every call returns the one existing promise:
\* no call starts a second initialization.
C2_FactoryOnce ==
    /\ Len(factoryCalls) <= 1
    /\ Len(promises) <= 1
    /\ \A i \in DOMAIN returned : returned[i].promise = state.initPromise

\* calls made while Initializing and after Ready, one factory invocation
C2_Witness ==
    /\ Len(factoryCalls) = 1
    /\ state.isReady
    /\ ~autoInit
    /\ \E i, j \in DOMAIN returned :
        /\ 1 < i /\ returned[i].early
        /\ ~returned[j].early

\* C3: whenever initialization starts while the global slot holds a
\* callable factory, the factory is invoked with a configuration whose
\* locateFile returns the empty path, and the state is Ready only with the
\* module of the resolved factory future.
C3_FactoryInvoked ==
    \A p \in DOMAIN promises :
        TypeOf(promises[p].slotAtStart) = "function" =>
            \E k \in DOMAIN factoryCalls :
                /\ factoryCalls[k].promise = p
                /\ LocateFile(factoryCalls[k].config, "draco_decoder.wasm") = ""
                /\ state.isReady =>
                        /\ factoryCalls[k].status = "done"
                        /\ state.decoderModule = ModuleOf(k)

InitRejected ==
    /\ state.initPromise # 0
    /\ promises[state.initPromise].status = "rejected"

\* C4: if the binary instantiation rejects (the factory's future, or
\* WebAssembly.instantiate inside the instantiateWasm override), the
\* promise returned by initDracoDecoder is eventually rejected.
C4_RejectionPropagates ==
    (\E k \in DOMAIN factoryCalls :
        factoryCalls[k].status \in {"rejected", "instantiateFailed"}) ~> InitRejected

\* C5: if there are no bytes when the factory instantiates the binary, the
\* controller is never Ready and the returned promise is eventually rejected.
C5_AbsentBinaryRejects ==
    /\ []((\E k \in DOMAIN factoryCalls : factoryCalls[k].status = "stalled")
            => ~state.isReady)
    /\ (\E k \in DOMAIN factoryCalls : factoryCalls[k].status = "stalled") ~> InitRejected

\* C6: whenever the controller is Ready, on either path, the module is
\* published at window.__DRACO_INITIALIZED_MODULE__ and equals
\* state.decoderModule.
C6_ReadyPublished == state.isReady => initializedSlot = state.decoderModule

\* C7: window.DracoDecoderModule never holds the initialized module
\* instance: it stays distinct from window.__DRACO_INITIALIZED_MODULE__ and
\* keeps the factory shape.
C7_FactorySlotKept ==
    /\ slot.tag # "module"
    /\ slot # initializedSlot
    /\ TypeOf(local) = "function" => TypeOf(slot) = "function"

\* C8: a send that follows an open with an identifier matching no
\* codec-file rule reaches the original send, whatever was opened on the
\* same object before.
C8_PassThroughSend ==
    \A o \in 1..MaxXhr : \A j \in DOMAIN hist[o] :
        (hist[o][j].op = "send" /\ ~XhrMatches(hist[o][j].url)) => hist[o][j].delegated

\* C9: after an open with a matching identifier on an object, no later
\* send on that object reaches the original send.
C9_NoRealSendAfterMatch ==
    \A o \in 1..MaxXhr : \A i, j \in DOMAIN hist[o] :
        (/\ i < j
         /\ hist[o][i].op = "open" /\ XhrMatches(hist[o][i].url)
         /\ hist[o][j].op = "send") => ~hist[o][j].delegated

\* a matching open, then a send, on an object that is sent again later
C9_Witness ==
    \E o \in 1..MaxXhr : \E i, j, k \in DOMAIN hist[o] :
        /\ i < j /\ j < k
        /\ hist[o][i].op = "open" /\ XhrMatches(hist[o][i].url)
        /\ hist[o][j].op = "open" /\ ~XhrMatches(hist[o][j].url)
        /\ hist[o][k].op = "send" /\ ~hist[o][k].delegated

\* C10: a suppressed send calls the caller's error handler exactly once, on
\* a later turn and never inside send, however the handler was registered
\* (before send, or after it and before the deferred turn).
C10_ErrorPathOnce ==
    \A o \in 1..MaxXhr : \A j \in DOMAIN hist[o] :
        (hist[o][j].op = "send" /\ ~hist[o][j].delegated) =>
            /\ ~hist[o][j].fired => hist[o][j].calls = 0
            /\ (hist[o][j].fired /\ hist[o][j].hadHandler) => hist[o][j].calls = 1

\* the resource a matching identifier names, by the fragment it contains
RequestedKind(url) == IF Has(url, FragWasmWasm) THEN "wasm" ELSE "js"

\* C11: a fetch whose identifier matches a codec-file rule never reaches the
\* original fetch with the requested identifier: it is answered by the
\* original fetch of the resource's blob URL when there is one, otherwise
\* by a synthetic 200 response with the embedded bytes and their content
\* type, otherwise by a rejection with an error.
C11_FetchShortCircuit ==
    \A i \in DOMAIN fetchLog :
        LET e == fetchLog[i]
            url == e.args[1]
            wasm == RequestedKind(url) = "wasm"
            hasUrl == IF wasm THEN e.reg.wasmUrl ELSE e.reg.decoderUrl
            hasBytes == IF wasm THEN e.reg.wasmBinary ELSE e.reg.decoderCode
        IN (url.isString /\ (Has(url, FragWasmWasm) \/ Has(url, FragWasmJs) \/ Has(url, FragJs))) =>
            /\ e.answer.via = "original" => url \notin {e.answer.args[k] : k \in DOMAIN e.answer.args}
            /\ hasUrl =>
                /\ e.answer.via = "original"
                /\ e.answer.args = <<IF wasm THEN WasmBlobUrl ELSE DecoderBlobUrl>>
            /\ (~hasUrl /\ hasBytes) =>
                /\ e.answer.via = "synthetic"
                /\ e.answer.status = 200
                /\ e.answer.body = (IF wasm THEN "wasmBinary" ELSE "decoderCode")
                /\ e.answer.contentType = (IF wasm THEN "application/wasm" ELSE "text/javascript")
            /\ (~hasUrl /\ ~hasBytes) =>
                /\ e.answer.via = "reject"
                /\ e.answer.error # ""

\* a matching fetch answered each of the three ways
C11_Witness ==
    \E i, j \in DOMAIN fetchLog :
        /\ FetchMatches(fetchLog[i].args[1]) /\ FetchMatches(fetchLog[j].args[1])
        /\ fetchLog[i].answer.via = "reject"
        /\ fetchLog[j].answer.via = "synthetic"

\* C12: a fetch whose identifier matches no codec-file rule (a string
\* without a codec fragment, or not a string) calls the original fetch
\* once with the same receiver and the same arguments and returns its result.
C12_FetchPassThrough ==
    \A i \in DOMAIN fetchLog :
        LET e == fetchLog[i]
            url == e.args[1]
        IN ~(url.isString /\ (Has(url, FragWasmWasm) \/ Has(url, FragWasmJs) \/ Has(url, FragJs))) =>
            e.answer = ViaOriginal(e.recv, e.args)

\* a non-string identifier and a two-argument call passed through
C12_Witness ==
    \E i, j \in DOMAIN fetchLog :
        /\ ~fetchLog[i].args[1].isString
        /\ fetchLog[i].answer.via = "original"
        /\ Len(fetchLog[j].args) = 2 /\ fetchLog[j].recv = "worker"
        /\ fetchLog[j].args[1] = UrlDecoderWasm
        /\ fetchLog[j].answer.via = "original"

\* the script rule: a string naming the decoder glue code
NamesDecoderScript(value) ==
    value.isString /\ (Has(value, FragWasmJs) \/ Has(value, FragJs))

RECURSIVE Flatten(_)
Flatten(parts) ==
    IF parts = <<>> THEN <<>> ELSE parts[1].chars \o Flatten(Tail(parts))

\* text t holds segment s at index a (from 1)
SegmentAt(t, s, a) ==
    a >= 1 /\ a + Len(s) - 1 <= Len(t) /\ SubSeq(t, a, a + Len(s) - 1) = s

\* the rewritten text holds the shim, then the glue code, then the worker
\* body as its end
ShimGlueBody(text, body) ==
    \E a, b \in 1..Len(text) :
        /\ SegmentAt(text, ShimText(WasmBlobUrl), a)
        /\ SegmentAt(text, DecoderCode, b)
        /\ a + Len(ShimText(WasmBlobUrl)) <= b
        /\ b + Len(DecoderCode) <= Len(text) - Len(body) + 1
        /\ SegmentAt(text, body, Len(text) - Len(body) + 1)

\* C14 as stated: every rewritten worker script holds the locate-file
\* shim, then the glue code, then the original worker body.
C14_ShimGlueBodyAlways ==
    \A i \in DOMAIN blobLog :
        blobLog[i].rewritten =>
            ShimGlueBody(Flatten(blobLog[i].out), blobLog[i].parts[1].chars)

\* C14 amended: when the WASM blob URL and the decoder code both exist,
\* every rewritten worker script holds the shim, then the glue code, then
\* the original worker body; a segment whose resource is absent is left
\* out and the body still ends the text.
C14_ShimGlueBodyWhenEmbedded ==
    \A i \in DOMAIN blobLog :
        LET e == blobLog[i]
            text == Flatten(e.out)
            body == e.parts[1].chars
        IN e.rewritten =>
            /\ (e.reg.wasmUrl /\ e.reg.decoderCode) => ShimGlueBody(text, body)
            /\ SegmentAt(text, body, Len(text) - Len(body) + 1)
            /\ ~e.reg.wasmUrl => IndexOf(text, ShimText(WasmBlobUrl)) = -1
            /\ ~e.reg.decoderCode => IndexOf(text, DecoderCode) = -1

\* a worker script rewritten with both resources embedded
C14_Witness ==
    \E i \in DOMAIN blobLog :
        /\ blobLog[i].rewritten
        /\ blobLog[i].reg.wasmUrl /\ blobLog[i].reg.decoderCode
        /\ Len(blobLog[i].out[1].chars) > Len(blobLog[i].parts[1].chars)

\* C15: the whole original content, every part in order, is the unmodified
\* end of the rewritten content.
C15_OriginalContentKept ==
    \A i \in DOMAIN blobLog :
        LET e == blobLog[i]
            text == Flatten(e.out)
            orig == Flatten(e.parts)
        IN e.rewritten =>
            /\ Len(orig) <= Len(text)
            /\ SubSeq(text, Len(text) - Len(orig) + 1, Len(text)) = orig

\* C16 as stated: every worker constructed gets the init message exactly
\* once, unconditionally, on a later turn and never inside the constructor.
C16_InitPostedAlways ==
    \A w \in DOMAIN workers :
        /\ ~workers[w].fired => workers[w].messages = <<>>
        /\ workers[w].fired => workers[w].messages = <<InitMessage>>

\* C16 amended: nothing is posted inside the constructor; on the later
\* turn the init message is posted exactly once if the decoder code and
\* the binary are both present at that moment, and nothing is posted
\* otherwise.
C16_InitPostedWhenEmbedded ==
    \A w \in DOMAIN workers :
        /\ ~workers[w].fired => workers[w].messages = <<>>
        /\ workers[w].fired =>
            workers[w].messages =
                (IF workers[w].regAtFire.decoderCode /\ workers[w].regAtFire.wasmBinary
                 THEN <<InitMessage>> ELSE <<>>)

\* one worker got its message on the later turn while another still waits
C16_Witness ==
    \E v, w \in DOMAIN workers :
        /\ workers[v].fired /\ workers[v].messages = <<InitMessage>>
        /\ ~workers[w].fired /\ workers[w].messages = <<>>

C18_DelegatesToOwnOriginal ==
    \A i \in DOMAIN hostLog : hostLog[i].orig = hostLog[i].entry


\* The payload of a data URL: what follows its first comma.
PayloadOf(url) == Slice(url, IndexOf(url, <<",">>) + 1)

\* The transport strings C19 calls malformed, for a call's url and options.
Malformed(url, opt) ==
    /\ ~IsDracoFile(url)
    /\ \/ ~StartsWith(url, PrefixData)
       \/ IndexOf(url, <<",">>) = -1
       \/ ~Atob(PayloadOf(url)).ok
       \/ /\ StartsWith(url, PrefixJson) \/ opt = "json"
          /\ ~JsonParse(Atob(PayloadOf(url)).bytes).ok

\* C19: a call of get with a malformed transport string (no data: prefix, no
\* comma, a payload that is not valid base64, or a JSON-typed payload that
\* does not parse) invokes the callback exactly once with a non-null error
\* and null data, and throws nothing.
C19_MalformedViaCallback ==
    \A i \in DOMAIN httpLog :
        Malformed(httpLog[i].url, httpLog[i].opt) =>
            /\ httpLog[i].result.thrown = ""
            /\ Len(httpLog[i].result.callbacks) = 1
            /\ httpLog[i].result.callbacks[1].err # ""
            /\ httpLog[i].result.callbacks[1].data = NoData

\* The character code of a payload character.
CharCode(c) ==
    IF IsBase64Char(c)
    THEN IF Base64Value(c) < 26 THEN 65 + Base64Value(c)
         ELSE IF Base64Value(c) < 52 THEN 97 + (Base64Value(c) - 26)
         ELSE IF Base64Value(c) < 62 THEN 48 + (Base64Value(c) - 52)
         ELSE IF c = "+" THEN 43 ELSE 47
    ELSE IF c = "=" THEN 61 ELSE 37

HexDigits == <<"0", "1", "2", "3", "4", "5", "6", "7", "8", "9", "A", "B", "C", "D", "E", "F">>
IsHex(c) == \E i \in 1..16 : HexDigits[i] = c
HexValue(c) == (CHOOSE i \in 1..16 : HexDigits[i] = c) - 1

\* Percent-decoding of a payload into character codes.
RECURSIVE PercentDecode(_)
PercentDecode(s) ==
    IF s = <<>> THEN <<>>
    ELSE IF s[1] = "%" /\ Len(s) >= 3 /\ IsHex(s[2]) /\ IsHex(s[3])
    THEN <<HexValue(s[2]) * 16 + HexValue(s[3])>> \o PercentDecode(SubSeq(s, 4, Len(s)))
    ELSE <<CharCode(s[1])>> \o PercentDecode(Tail(s))

MarkerBase64 == <<";", "b", "a", "s", "e", "6", "4">>

\* The text of a JSON data URL under the encoding the URL declares.
DeclaredText(url) ==
    IF IndexOf(Substring(url, 5, IndexOf(url, <<",">>)), MarkerBase64) # -1
    THEN Atob(PayloadOf(url)).bytes
    ELSE PercentDecode(PayloadOf(url))

\* C20: for a data URL with MIME application/json whose payload, decoded by
\* the encoding the URL declares (base64 with the ;base64 marker,
\* percent-encoding without it), is JSON text, get calls back once with
\* (null, parsed value).
C20_JsonByDeclaredEncoding ==
    \A i \in DOMAIN httpLog :
        LET url == httpLog[i].url
        IN (/\ StartsWith(url, PrefixJson)
            /\ IndexOf(url, <<",">>) # -1
            /\ JsonParse(DeclaredText(url)).ok)
           => httpLog[i].result = Called("", JsonData(JsonParse(DeclaredText(url)).value))


\* The MIME type a data URL declares: the metadata up to its first ";".
MimeOf(url) == SplitFirst(Substring(url, 5, IndexOf(url, <<",">>)), ";")

MimeJson == <<"a", "p", "p", "l", "i", "c", "a", "t", "i", "o", "n", "/", "j", "s", "o", "n">>
MimeTextPlain == <<"t", "e", "x", "t", "/", "p", "l", "a", "i", "n">>
MimeTextJs == <<"t", "e", "x", "t", "/", "j", "a", "v", "a", "s", "c", "r", "i", "p", "t">>
MimeImage == <<"i", "m", "a", "g", "e", "/">>

\* A data URL with a base64 payload; a JSON MIME carries JSON text.
WellFormed(url) ==
    /\ ~IsDracoFile(url)
    /\ StartsWith(url, PrefixData)
    /\ IndexOf(url, <<",">>) # -1
    /\ Atob(PayloadOf(url)).ok
    /\ MimeOf(url) = MimeJson => JsonParse(Atob(PayloadOf(url)).bytes).ok

\* The payload kind C21 assigns to each declared MIME type.
ByMime(url) ==
    LET bytes == Atob(PayloadOf(url)).bytes
    IN IF MimeOf(url) = MimeJson THEN JsonData(JsonParse(bytes).value)
       ELSE IF MimeOf(url) \in {MimeTextPlain, MimeTextJs} THEN TextData(bytes)
       ELSE IF StartsWith(MimeOf(url), MimeImage) THEN BlobData(bytes, MimeOf(url))
       ELSE BufferData(bytes)

\* C21 as stated: for every well-formed data URL and every options value,
\* get calls back exactly once with (null, data), where the kind of data is
\* fixed by the declared MIME type: parsed value for JSON, string for
\* text/plain and text/javascript, Blob of that type for image/*, byte
\* buffer for everything else.
C21_KindByMimeAlways ==
    \A i \in DOMAIN httpLog :
        WellFormed(httpLog[i].url) =>
            httpLog[i].result = Called("", ByMime(httpLog[i].url))

\* C21: for every well-formed data URL, a call whose options do not request
\* the JSON response type calls back exactly once with (null, data) of the
\* kind fixed by the declared MIME type; a call whose options request the
\* JSON response type and whose payload is JSON text calls back exactly once
\* with (null, parsed value) whatever the MIME type.
C21_KindByMimeUnlessJsonRequested ==
    \A i \in DOMAIN httpLog :
        LET url == httpLog[i].url
            bytes == Atob(PayloadOf(url)).bytes
        IN WellFormed(url) =>
            IF httpLog[i].opt # "json"
            THEN httpLog[i].result = Called("", ByMime(url))
            ELSE JsonParse(bytes).ok =>
                    httpLog[i].result = Called("", JsonData(JsonParse(bytes).value))

C21_Witness ==
    \E i, j \in DOMAIN httpLog :
        /\ httpLog[i].opt # "json"
        /\ WellFormed(httpLog[i].url)
        /\ httpLog[i].result.callbacks[1].data.kind = "blob"
        /\ httpLog[j].opt = "json"
        /\ WellFormed(httpLog[j].url)
        /\ MimeOf(httpLog[j].url) = MimeTextJs
        /\ httpLog[j].result.callbacks[1].data.kind = "json"


\* The codec-file rule of get: the identifier contains one of the three
\* decoder file names.
NamesCodecFile(url) ==
    \E frag \in {FragWasmJs, FragWasmWasm, FragJs} : IndexOf(url, frag) # -1

\* C22: a call of get whose identifier matches the codec-file rule, with the
\* callback as third argument or passed as options, invokes the callback
\* exactly once before it returns, with (null, ''), decodes nothing and
\* makes no network call.
C22_CodecFileAnswered ==
    /\ fetchLog = <<>>
    /\ \A o \in DOMAIN hist : hist[o] = <<>>
    /\ \A i \in DOMAIN httpLog :
        NamesCodecFile(httpLog[i].url) =>
            /\ httpLog[i].result = Called("", TextData(<<>>))
            /\ ~httpLog[i].decoded

C22_Witness ==
    \E i, j \in DOMAIN httpLog :
        /\ NamesCodecFile(httpLog[i].url) /\ httpLog[i].opt = "callback"
        /\ NamesCodecFile(httpLog[j].url) /\ httpLog[j].opt = "empty"
        /\ ~StartsWith(httpLog[j].url, PrefixData)


\* C23: for every byte sequence of the bounded set, get applied to its
\* base64 data URL with MIME application/octet-stream calls back once with
\* (null, buffer), where the buffer has the length and the bytes of the
\* original sequence.
C23_RoundTrip ==
    \A i \in DOMAIN httpLog :
        /\ httpLog[i].result.thrown = ""
        /\ Len(httpLog[i].result.callbacks) = 1
        /\ httpLog[i].result.callbacks[1].err = ""
        /\ httpLog[i].result.callbacks[1].data.kind = "buffer"
        /\ Len(httpLog[i].result.callbacks[1].data.text) = Len(httpLog[i].bytes)
        /\ httpLog[i].result.callbacks[1].data.text = httpLog[i].bytes

C23_Witness ==
    \E i \in DOMAIN httpLog :
        /\ Len(httpLog[i].bytes) = 2
        /\ httpLog[i].bytes[1] = 255
        /\ httpLog[i].result.callbacks[1].data.text = httpLog[i].bytes


\* C24: a call of a wrapped asset-open entry point made while the controller
\* is not Ready leaves window.DracoDecoderModule and the controller state
\* (initPromise, isReady, decoderModule) unchanged, and starts no
\* initialization.
C24_NotReadyCallKeepsState ==
    [][(hostLog' # hostLog /\ ~state.isReady) =>
            /\ slot' = slot
            /\ state' = state
            /\ promises' = promises
            /\ factoryCalls' = factoryCalls
            /\ returned' = returned]_vars

C24_Witness ==
    \E i \in DOMAIN hostLog :
        /\ hostLog[i].entry = "open"
        /\ ~hostLog[i].ready
        /\ hostLog[i].seen = slot
        /\ state.initPromise # 0
        /\ promises[state.initPromise].status = "rejected"

\* C25: isReady implies a non-null decoderModule and a non-null initPromise;
\* once isReady is true it stays true and decoderModule keeps its value; once
\* initPromise is non-null it keeps its value, so a failed initialization is
\* not retried by a later call.
C25_ControllerInvariants ==
    /\ [](state.isReady => (Truthy(state.decoderModule) /\ state.initPromise # 0))
    /\ [][/\ state.isReady =>
                (state'.isReady /\ state'.decoderModule = state.decoderModule)
          /\ state.initPromise # 0 => state'.initPromise = state.initPromise]_vars

C25_Witness ==
    /\ state.isReady
    /\ Len(returned) >= 2
    /\ \A i \in DOMAIN returned : returned[i].promise = state.initPromise

============================================================================
